---- MODULE Spec2Model ----
(***************************************************************************)
(* Model of synapse/config/sso.py: the SsoAttributeRequirement value type  *)
(* and SSOConfig.read_config, the loader of the "sso" configuration        *)
(* section.  Python values are tagged records; list objects live in a heap *)
(* so that two names bound to the same list object share its contents.     *)
(***************************************************************************)
EXTENDS Integers, Sequences, FiniteSets, TLC

\* config         the raw configuration mapping handed to read_config
\* public_baseurl the server's public base URL, None when not configured
\* broken         the template files that read_templates cannot parse
\* heap           the contents of the list objects, by address
\* self           the attributes of the SSOConfig object
\* request        the arguments of the last read_templates call
\* outcome        how the last read_config ended: "ok" or the exception raised
\* loads          the number of read_config calls made
\* reqs           the SsoAttributeRequirement instances constructed
VARIABLES config, public_baseurl, broken, heap, self, request, outcome, loads, reqs

vars == <<config, public_baseurl, broken, heap, self, request, outcome, loads, reqs>>

(***************************************************************************)
(* Bounds of the model.                                                    *)
(***************************************************************************)
MaxLen == 2
MaxLoads == 2
MaxReqs == 4

(***************************************************************************)
(* Python values.                                                          *)
(***************************************************************************)
Val(tag, str, bool, addr) == [t |-> tag, s |-> str, b |-> bool, ref |-> addr]

None == Val("none", "", FALSE, 0)
Absent == Val("absent", "", FALSE, 0)
Unset == Val("unset", "", FALSE, 0)
Dict == Val("dict", "", FALSE, 0)
Str(x) == Val("str", x, FALSE, 0)
Bool(x) == Val("bool", "", x, 0)
List(r) == Val("list", "", FALSE, r)
Template(n) == Val("template", n, FALSE, 0)

\* Python truth value of v, the list objects being those of heap hp.
Truthy(v, hp) ==
    CASE v.t = "str" -> v.s # ""
      [] v.t = "bool" -> v.b
      [] v.t = "list" -> Len(hp[v.ref]) > 0
      [] v.t = "dict" -> TRUE
      [] v.t = "template" -> TRUE
      [] OTHER -> FALSE

\* dict.get(key): the value under the key, None when the key is absent.
Get(m, key) == IF m[key].t = "absent" THEN None ELSE m[key]

(***************************************************************************)
(* The inputs the model draws from.                                        *)
(***************************************************************************)
LoginFallbackSuffix == "_matrix/static/client/login"

ExampleBaseUrl == "https://example.org/"

ExampleFallbackUrl == "https://example.org/_matrix/static/client/login"

Urls == {"https://a.client/", ExampleFallbackUrl}

RECURSIVE SeqsUpTo(_)
SeqsUpTo(n) ==
    IF n = 0 THEN {<<>>}
    ELSE LET shorter == SeqsUpTo(n - 1)
         IN  shorter \cup {Append(q, u) : q \in {r \in shorter : Len(r) = n - 1}, u \in Urls}

BaseUrls == {None, Str(""), Str(ExampleBaseUrl)}

TemplateNames ==
    << "sso_login_idp_picker.html",
       "sso_redirect_confirm.html",
       "sso_auth_confirm.html",
       "sso_error.html",
       "sso_account_deactivated.html",
       "sso_auth_success.html",
       "sso_auth_bad_user.html" >>

TemplateFiles == {TemplateNames[i] : i \in DOMAIN TemplateNames}

EmptyMapping ==
    [t |-> "dict", template_dir |-> Absent, client_whitelist |-> Absent,
     update_profile_information |-> Absent]

NoSelf ==
    [sso_template_dir |-> Unset,
     sso_login_idp_picker_template |-> Unset,
     sso_redirect_confirm_template |-> Unset,
     sso_auth_confirm_template |-> Unset,
     sso_error_template |-> Unset,
     sso_account_deactivated_template |-> Unset,
     sso_auth_success_template |-> Unset,
     sso_auth_bad_user_template |-> Unset,
     sso_client_whitelist |-> Unset,
     sso_update_profile_information |-> Unset]

NoRequest == [names |-> <<>>, dir |-> Unset]

(***************************************************************************)
(* SsoAttributeRequirement: an attrs class with the fields attribute and   *)
(* value.  An instance is an object (id) carrying its two fields.          *)
(***************************************************************************)
Attributes == {"x", "y"}

Values == {None, Str("a"), Str("b")}

SsoAttributeRequirement(ident, attribute, value) ==
    [id |-> ident, attribute |-> attribute, value |-> value]

\* The comparison of an attrs class whose fields take no part in it: identity.
IdentityEq(a, b) == a.id = b.id

\* The generated __eq__: the tuples of the fields, in declaration order.
AttrsEq(a, b) == <<a.attribute, a.value>> = <<b.attribute, b.value>>

(***************************************************************************)
(* SSOConfig.read_config, statement by statement.                          *)
(***************************************************************************)
\* config.get("sso") with nothing to fall back on.
SsoSectionNoDefault(cfg) ==
    IF cfg.sso = "dict"
    THEN [t |-> "dict", template_dir |-> cfg.template_dir,
          client_whitelist |-> cfg.client_whitelist,
          update_profile_information |-> cfg.update_profile_information]
    ELSE [EmptyMapping EXCEPT !.t = IF cfg.sso = "absent" THEN "none" ELSE cfg.sso]

\* config.get("sso") or {}
SsoSection(cfg) ==
    CASE cfg.sso = "dict" ->
           [t |-> "dict", template_dir |-> cfg.template_dir,
            client_whitelist |-> cfg.client_whitelist,
            update_profile_information |-> cfg.update_profile_information]
      [] cfg.sso = "str" -> [EmptyMapping EXCEPT !.t = "str"]
      [] OTHER -> EmptyMapping

\* read_templates raises when a requested file does not parse.
ReadTemplatesFails(names, bad) == \E i \in DOMAIN names : names[i] \in bad

\* read_templates: one renderable handle per requested name, in order.
ReadTemplates(names, dir) == [i \in DOMAIN names |-> Template(names[i])]

\* Template.render() with no variables: the rendered text of the file.
Render(tpl) == Str("rendered " \o tpl.s)

\* The unpacking with the last two templates rendered instead.
BindTemplatesShifted(slf, tpls) ==
    [slf EXCEPT !.sso_login_idp_picker_template = tpls[1],
                !.sso_redirect_confirm_template = tpls[2],
                !.sso_auth_confirm_template = tpls[3],
                !.sso_error_template = tpls[4],
                !.sso_account_deactivated_template = tpls[5],
                !.sso_auth_success_template = Render(tpls[6]),
                !.sso_auth_bad_user_template = Render(tpls[7])]

\* The tuple unpacking of the seven templates and the two render() calls.
BindTemplates(slf, tpls) ==
    [slf EXCEPT !.sso_login_idp_picker_template = tpls[1],
                !.sso_redirect_confirm_template = tpls[2],
                !.sso_auth_confirm_template = tpls[3],
                !.sso_error_template = tpls[4],
                !.sso_account_deactivated_template = Render(tpls[5]),
                !.sso_auth_success_template = Render(tpls[6]),
                !.sso_auth_bad_user_template = tpls[7]]

\* get("update_profile_information") with no default.
UpdateProfileInformationRaw(sso_config, hp) ==
    Get(sso_config, "update_profile_information")

\* sso_config.get("update_profile_information") or False
UpdateProfileInformation(sso_config, hp) ==
    LET v == Get(sso_config, "update_profile_information")
    IN  IF Truthy(v, hp) THEN v ELSE Bool(FALSE)

\* "if self.public_baseurl is not None"
HasBaseUrlNotNone(base, hp) == base.t # "none"

\* "if self.public_baseurl"
HasBaseUrl(base, hp) == Truthy(base, hp)

\* The concatenation with a separator put in between.
LoginFallbackUrlSlash(base) == base.s \o "/" \o LoginFallbackSuffix

\* self.public_baseurl + "_matrix/static/client/login"
LoginFallbackUrl(base) == base.s \o LoginFallbackSuffix

\* An append that leaves out an entry the list already has.
ListAppendUnique(l, x) ==
    IF \E i \in DOMAIN l : l[i] = x THEN l ELSE Append(l, x)

\* list.append
ListAppend(l, x) == Append(l, x)

Frame(slf, hp, req, out) == [self |-> slf, heap |-> hp, request |-> req, outcome |-> out]

\* Lines 42-73: the section, template_dir, the templates.
TemplatesPart(cfg, bad, st) ==
    LET sso_config == SsoSection(cfg)
    IN  IF sso_config.t # "dict"
        THEN Frame(st.self, st.heap, st.request, "AttributeError")
        ELSE LET s1 == [st.self EXCEPT !.sso_template_dir = Get(sso_config, "template_dir")]
                 rq == [names |-> TemplateNames, dir |-> s1.sso_template_dir]
             IN  IF ReadTemplatesFails(rq.names, bad)
                 THEN Frame(s1, st.heap, rq, "ConfigError")
                 ELSE Frame(BindTemplates(s1, ReadTemplates(rq.names, rq.dir)),
                            st.heap, rq, "ok")

\* Lines 75-90: the whitelist, update_profile_information, the login fallback.
WhitelistPart(cfg, base, st) ==
    LET sso_config == SsoSection(cfg)
        got == Get(sso_config, "client_whitelist")
        fresh == ~Truthy(got, st.heap)
        hp1 == IF fresh THEN Append(st.heap, <<>>) ELSE st.heap
        wl == IF fresh THEN List(Len(hp1)) ELSE got
        s3 == [st.self EXCEPT
                 !.sso_client_whitelist = wl,
                 !.sso_update_profile_information =
                     UpdateProfileInformation(sso_config, st.heap)]
    IN  IF ~HasBaseUrl(base, hp1)
        THEN Frame(s3, hp1, st.request, "ok")
        ELSE IF wl.t # "list"
             THEN Frame(s3, hp1, st.request, "AttributeError")
             ELSE Frame(s3,
                        [hp1 EXCEPT ![wl.ref] = ListAppend(@, LoginFallbackUrl(base))],
                        st.request, "ok")

\* read_config with the failure of read_templates caught and passed over.
ReadConfigSwallow(cfg, base, bad, st) ==
    WhitelistPart(cfg, base, TemplatesPart(cfg, bad, st))

\* read_config: an exception ends the call where it is raised.
ReadConfigResult(cfg, base, bad, st) ==
    LET st1 == TemplatesPart(cfg, bad, st)
    IN  IF st1.outcome # "ok" THEN st1 ELSE WhitelistPart(cfg, base, st1)

(***************************************************************************)
(* The state machine of the loader.                                        *)
(***************************************************************************)
FieldsOf(wl) ==
    {[sso |-> "dict", template_dir |-> d, client_whitelist |-> wl,
      update_profile_information |-> u] :
        d \in {Absent, Str("res/templates")},
        u \in {Absent, Bool(TRUE), Bool(FALSE), Str("yes")}}

NoSection(kind) ==
    [sso |-> kind, template_dir |-> Absent, client_whitelist |-> Absent,
     update_profile_information |-> Absent]

InitEnv ==
    /\ public_baseurl \in BaseUrls
    /\ broken \in SUBSET TemplateFiles
    /\ self = NoSelf
    /\ request = NoRequest
    /\ outcome = "none"
    /\ loads = 0
    /\ reqs = <<>>

Init ==
    /\ \/ /\ config \in {NoSection("absent"), NoSection("none"), NoSection("str")}
          /\ heap = <<>>
       \/ /\ config \in FieldsOf(Absent) \cup FieldsOf(Str("https://a.client/"))
                          \cup FieldsOf(Dict)
          /\ heap = <<>>
       \/ /\ config \in FieldsOf(List(1))
          /\ heap \in {<<l>> : l \in SeqsUpTo(MaxLen)}
    /\ InitEnv

CurrentFrame == Frame(self, heap, request, outcome)

ReadConfig ==
    /\ loads < MaxLoads
    /\ LET r == ReadConfigResult(config, public_baseurl, broken, CurrentFrame)
       IN  /\ self' = r.self
           /\ heap' = r.heap
           /\ request' = r.request
           /\ outcome' = r.outcome
    /\ loads' = loads + 1
    /\ UNCHANGED <<config, public_baseurl, broken, reqs>>

Next == ReadConfig

Spec == Init /\ [][Next]_vars

(***************************************************************************)
(* The state machine of the attribute requirements.                        *)
(***************************************************************************)
InitReq ==
    /\ config = NoSection("absent")
    /\ heap = <<>>
    /\ public_baseurl = None
    /\ broken = {}
    /\ self = NoSelf
    /\ request = NoRequest
    /\ outcome = "none"
    /\ loads = 0
    /\ reqs = <<>>

NewRequirement ==
    /\ Len(reqs) < MaxReqs
    /\ \E a \in Attributes, v \in Values :
          reqs' = Append(reqs, SsoAttributeRequirement(Len(reqs) + 1, a, v))
    /\ UNCHANGED <<config, public_baseurl, broken, heap, self, request, outcome, loads>>

NextReq == NewRequirement

SpecReq == InitReq /\ [][NextReq]_vars

(***************************************************************************)
(* Vocabulary of the properties.                                           *)
(***************************************************************************)
\* The entries of the whitelist a settings object holds.
WhitelistOf(slf, hp) ==
    IF slf.sso_client_whitelist.t = "list" THEN hp[slf.sso_client_whitelist.ref] ELSE <<>>

\* The entries of client_whitelist in the raw mapping (none when the key is absent).
ConfiguredList(cfg, hp) ==
    IF cfg.sso = "dict" /\ cfg.client_whitelist.t = "list"
    THEN hp[cfg.client_whitelist.ref]
    ELSE <<>>

ListShaped(cfg) ==
    cfg.sso # "dict" \/ cfg.client_whitelist.t \in {"absent", "list"}

Count(x, l) == Cardinality({i \in DOMAIN l : l[i] = x})

FallbackEntry == public_baseurl.s \o "_matrix/static/client/login"

BaseUrlSet == public_baseurl.t = "str" /\ public_baseurl.s # ""

Loaded == loads' = loads + 1

TemplateAttrs ==
    << "sso_login_idp_picker_template", "sso_redirect_confirm_template",
       "sso_auth_confirm_template", "sso_error_template",
       "sso_account_deactivated_template", "sso_auth_success_template",
       "sso_auth_bad_user_template" >>

Malformed ==
    /\ config.sso = "dict"
    /\ \/ config.client_whitelist.t \in {"str", "dict"}
       \/ config.update_profile_information.t = "str"

(***************************************************************************)
(* C1                                                                      *)
(***************************************************************************)
\* C1, as stated: after the first successful read_config of a well-formed
\* mapping, with a non-empty public base URL, the whitelist holds the login
\* fallback entry exactly once, as its last entry.
C1_FallbackExactlyOnce ==
    (loads = 1 /\ outcome = "ok" /\ BaseUrlSet /\ ~Malformed) =>
        LET wl == WhitelistOf(self, heap)
        IN  /\ Count(FallbackEntry, wl) = 1
            /\ wl[Len(wl)] = FallbackEntry

\* C1, amended: after every successful read_config with a non-empty public base
\* URL the login fallback entry is the last entry of the whitelist, the whitelist
\* is one entry longer than the client_whitelist the mapping held when the call
\* began, and the entry occurs exactly once more than in that list.
C1_FallbackAppendedLast ==
    [][(Loaded /\ outcome' = "ok" /\ BaseUrlSet) =>
        LET before == ConfiguredList(config, heap)
            wl == WhitelistOf(self', heap')
        IN  /\ Len(wl) = Len(before) + 1
            /\ wl[Len(wl)] = FallbackEntry
            /\ Count(FallbackEntry, wl) = Count(FallbackEntry, before) + 1]_vars

C1_Witness ==
    /\ loads = 1 /\ outcome = "ok" /\ BaseUrlSet
    /\ Count(FallbackEntry, WhitelistOf(self, heap)) = 2

(***************************************************************************)
(* C2                                                                      *)
(***************************************************************************)
\* C2: with the public base URL None or empty, a successful read_config of a
\* mapping whose client_whitelist is a list (or absent) yields a whitelist equal,
\* entry for entry, to that list (empty when absent): nothing is appended.
C2_NoBaseUrlKeepsList ==
    [][(Loaded /\ outcome' = "ok" /\ ~BaseUrlSet /\ ListShaped(config)) =>
        /\ self'.sso_client_whitelist.t = "list"
        /\ WhitelistOf(self', heap') = ConfiguredList(config, heap)]_vars

C2_Witness ==
    /\ outcome = "ok" /\ public_baseurl = Str("")
    /\ Len(ConfiguredList(config, heap)) = 2
    /\ WhitelistOf(self, heap) = ConfiguredList(config, heap)

(***************************************************************************)
(* C3                                                                      *)
(***************************************************************************)
\* C3: with a non-empty public base URL, a successful read_config yields the
\* client_whitelist of the mapping, in order, followed by the one string base URL
\* + "_matrix/static/client/login" with nothing put between or taken away; base
\* URL "https://example.org/" and an empty list give exactly
\* ["https://example.org/_matrix/static/client/login"].
C3_ListThenFallback ==
    [][(Loaded /\ outcome' = "ok" /\ BaseUrlSet) =>
        /\ WhitelistOf(self', heap') =
              ConfiguredList(config, heap) \o <<public_baseurl.s \o "_matrix/static/client/login">>
        /\ (public_baseurl.s = "https://example.org/" /\ ConfiguredList(config, heap) = <<>>) =>
              WhitelistOf(self', heap') = <<"https://example.org/_matrix/static/client/login">>]_vars

C3_Witness ==
    /\ outcome = "ok" /\ public_baseurl = Str("https://example.org/")
    /\ config.sso = "dict" /\ config.client_whitelist.t = "list"
    /\ WhitelistOf(self, heap) = <<"https://example.org/_matrix/static/client/login">>

(***************************************************************************)
(* C4                                                                      *)
(***************************************************************************)
\* C4: read_config of a mapping with no "sso" section ends as read_config of the
\* mapping with an explicitly empty "sso" section does: same outcome, same
\* settings, same request to read_templates; on success template_dir is None,
\* the whitelist holds the fallback entry alone if there is one, and
\* update_profile_information is False.
C4_AbsentSectionIsEmptySection ==
    [][(Loaded /\ config.sso = "absent") =>
        LET e == ReadConfigResult(NoSection("dict"), public_baseurl, broken, CurrentFrame)
        IN  /\ outcome' = e.outcome
            /\ self' = e.self
            /\ WhitelistOf(self', heap') = WhitelistOf(e.self, e.heap)
            /\ request' = e.request
            /\ outcome' # "AttributeError"
            /\ request' = [names |-> TemplateNames, dir |-> None]
            /\ self'.sso_template_dir = None
            /\ outcome' = "ok" =>
                  /\ WhitelistOf(self', heap') =
                        IF BaseUrlSet THEN <<FallbackEntry>> ELSE <<>>
                  /\ self'.sso_update_profile_information = Bool(FALSE)]_vars

C4_Witness ==
    /\ config.sso = "absent" /\ outcome = "ok" /\ BaseUrlSet
    /\ WhitelistOf(self, heap) = <<FallbackEntry>>
    /\ self.sso_update_profile_information = Bool(FALSE)

(***************************************************************************)
(* C5                                                                      *)
(***************************************************************************)
\* C5: when client_whitelist is a string or a mapping, or
\* update_profile_information is not a boolean, read_config never completes.
C5_MalformedIsFatal == Malformed => outcome # "ok"

(***************************************************************************)
(* C6                                                                      *)
(***************************************************************************)
\* C6: when read_templates fails for one of the seven templates, read_config
\* does not complete and nothing after the call is set: no template setting, no
\* sso_client_whitelist, no sso_update_profile_information.
C6_TemplateFailurePropagates ==
    (broken # {}) =>
        /\ outcome # "ok"
        /\ self.sso_client_whitelist = Unset
        /\ self.sso_update_profile_information = Unset
        /\ \A i \in DOMAIN TemplateAttrs : self[TemplateAttrs[i]] = Unset
        /\ heap = IF config.sso = "dict" /\ config.client_whitelist.t = "list"
                  THEN <<ConfiguredList(config, heap)>> ELSE <<>>

C6_Witness ==
    /\ outcome = "ConfigError" /\ loads = 2
    /\ request.names = TemplateNames
    /\ self.sso_template_dir = Str("res/templates")
    /\ self.sso_client_whitelist = Unset

(***************************************************************************)
(* C7                                                                      *)
(***************************************************************************)
\* C7: after a successful read_config exactly two of the seven template settings
\* are plain strings, the rendered account-deactivated and auth-success pages;
\* the other five are the handles of the files requested in the same position.
C7_TwoRenderedFiveHandles ==
    (outcome = "ok") =>
        /\ Cardinality({i \in DOMAIN TemplateAttrs : self[TemplateAttrs[i]].t = "str"}) = 2
        /\ self.sso_account_deactivated_template = Str("rendered sso_account_deactivated.html")
        /\ self.sso_auth_success_template = Str("rendered sso_auth_success.html")
        /\ self.sso_login_idp_picker_template = Template("sso_login_idp_picker.html")
        /\ self.sso_redirect_confirm_template = Template("sso_redirect_confirm.html")
        /\ self.sso_auth_confirm_template = Template("sso_auth_confirm.html")
        /\ self.sso_error_template = Template("sso_error.html")
        /\ self.sso_auth_bad_user_template = Template("sso_auth_bad_user.html")
        /\ \A i \in {1, 2, 3, 4, 7} : self[TemplateAttrs[i]] = Template(request.names[i])

C7_Witness ==
    /\ outcome = "ok" /\ broken = {}
    /\ self.sso_auth_success_template.t = "str"
    /\ self.sso_auth_bad_user_template.t = "template"

(***************************************************************************)
(* C8                                                                      *)
(***************************************************************************)
\* C8: two SsoAttributeRequirement instances are equal exactly when their
\* attribute fields are equal and their value fields are equal, None being equal
\* to None alone: ("x", None) equals ("x", None), ("x", "a") differs from ("x", "b").
C8_StructuralEquality ==
    \A i, j \in DOMAIN reqs :
        /\ AttrsEq(reqs[i], reqs[j]) <=>
              (reqs[i].attribute = reqs[j].attribute /\ reqs[i].value = reqs[j].value)
        /\ (reqs[i].value.t = "none" /\ AttrsEq(reqs[i], reqs[j])) => reqs[j].value.t = "none"
        /\ ( /\ reqs[i].attribute = "x" /\ reqs[i].value = None
             /\ reqs[j].attribute = "x" /\ reqs[j].value = None ) => AttrsEq(reqs[i], reqs[j])
        /\ ( /\ reqs[i].attribute = "x" /\ reqs[i].value = Str("a")
             /\ reqs[j].attribute = "x" /\ reqs[j].value = Str("b") ) => ~AttrsEq(reqs[i], reqs[j])

C8_Witness ==
    /\ \E i, j \in DOMAIN reqs :
          /\ i # j
          /\ reqs[i].attribute = "x" /\ reqs[i].value = None
          /\ reqs[j].attribute = "x" /\ reqs[j].value = None
    /\ \E i, j \in DOMAIN reqs :
          /\ reqs[i].attribute = "x" /\ reqs[i].value = Str("a")
          /\ reqs[j].attribute = "x" /\ reqs[j].value = Str("b")

(***************************************************************************)
(* C9                                                                      *)
(***************************************************************************)
\* C9: a successful read_config sets sso_update_profile_information to the
\* configured boolean, and to False when the key or the section is absent; with
\* {sso: {update_profile_information: true}} and no public base URL the result
\* has it True and an empty whitelist.
C9_UpdateProfileInformation ==
    (outcome = "ok") =>
        /\ (config.sso = "dict" /\ config.update_profile_information.t = "bool") =>
              self.sso_update_profile_information = config.update_profile_information
        /\ (config.sso # "dict" \/ config.update_profile_information.t = "absent") =>
              self.sso_update_profile_information = Bool(FALSE)
        /\ ( /\ config = [sso |-> "dict", template_dir |-> Absent,
                          client_whitelist |-> Absent,
                          update_profile_information |-> Bool(TRUE)]
             /\ public_baseurl = None ) =>
              /\ self.sso_update_profile_information = Bool(TRUE)
              /\ self.sso_client_whitelist.t = "list"
              /\ WhitelistOf(self, heap) = <<>>

C9_Witness ==
    /\ outcome = "ok" /\ public_baseurl = None
    /\ config = [sso |-> "dict", template_dir |-> Absent, client_whitelist |-> Absent,
                 update_profile_information |-> Bool(TRUE)]
    /\ self.sso_update_profile_information = Bool(TRUE)

(***************************************************************************)
(* C10                                                                     *)
(***************************************************************************)
\* C10: read_config leaves a well-formed raw mapping as it was: its client_whitelist holds
\* the same entries after the call as before, so a second load yields the
\* whitelist of the first.
C10_RawConfigUnchanged ==
    [][(Loaded /\ ~Malformed) =>
        /\ ConfiguredList(config', heap') = ConfiguredList(config, heap)
        /\ (loads >= 1 /\ outcome = "ok" /\ outcome' = "ok") =>
              WhitelistOf(self', heap') = WhitelistOf(self, heap)]_vars

====
